---- MODULE Spec2Model ----
(***************************************************************************)
(* A model of vtki/filters.py: the DataSetFilters convenience layer over   *)
(* the VTK algorithms.  The dataset is the caller's object; every filter   *)
(* call is one action that records its arguments, the kernel objects it    *)
(* built or ran (events), and its outcome (an error or an output).         *)
(***************************************************************************)
EXTENDS Integers, Sequences, FiniteSets, TLC

VARIABLES dataset, op, args, res

vars == <<dataset, op, args, res>>

----------------------------------------------------------------------------
(* Python values of mixed type are tagged records.                         *)

None == [t |-> "None"]

Str(s) == [t |-> "str", s |-> s]

Vec(v) == [t |-> "vec", v |-> v]

PyInt(i) == [t |-> "int", i |-> i]

----------------------------------------------------------------------------
(* Exact rational arithmetic for coordinates (Python floats, without       *)
(* rounding).  A rational is [n, d] in lowest terms with d > 0.            *)

Abs(i) == IF i < 0 THEN -i ELSE i

RECURSIVE GCD(_, _)
GCD(a, b) == IF b = 0 THEN a ELSE GCD(b, a % b)

Rat(n, d) ==
    LET s == IF d < 0 THEN -1 ELSE 1
        g == GCD(Abs(n), Abs(d))
    IN  [n |-> (s * n) \div g, d |-> (s * d) \div g]

R(i) == [n |-> i, d |-> 1]

RAdd(a, b) == Rat(a.n * b.d + b.n * a.d, a.d * b.d)

RSub(a, b) == Rat(a.n * b.d - b.n * a.d, a.d * b.d)

RMul(a, b) == Rat(a.n * b.n, a.d * b.d)

RDiv(a, b) == Rat(a.n * b.d, a.d * b.n)

RLe(a, b) == a.n * b.d <= b.n * a.d

RLt(a, b) == a.n * b.d < b.n * a.d

----------------------------------------------------------------------------
(* Python strings that the code inspects are sequences of characters.      *)

Upper == [c \in {"x", "y", "z"} |-> CASE c = "x" -> "X" [] c = "y" -> "Y" [] c = "z" -> "Z"]

LowerChar(c) ==
    IF \E l \in DOMAIN Upper : Upper[l] = c
    THEN CHOOSE l \in DOMAIN Upper : Upper[l] = c
    ELSE c

Lower(s) == [i \in 1..Len(s) |-> LowerChar(s[i])]

----------------------------------------------------------------------------
(* Outcomes of a call.                                                     *)

NoOutput == [kind |-> "none"]

Raise(e, ev) == [err |-> e, out |-> NoOutput, events |-> ev]

Return(o, ev) == [err |-> "", out |-> o, events |-> ev]

KeyError == "KeyError"

TypeError == "TypeError"

IndexError == "IndexError"

SliceOutsideBounds == "AssertionError: Slice is outside data bounds."

----------------------------------------------------------------------------
(* The dataset: bounds and center.                                         *)

Center(ds) ==
    [k \in 1..3 |-> RDiv(R(ds.bounds[2 * k - 1] + ds.bounds[2 * k]), R(2))]

is_inside_bounds(point, bounds) ==
    \A k \in 1..Len(point) :
        RLe(bounds[2 * k - 1], point[k]) /\ RLe(point[k], bounds[2 * k])

RBounds(ds) == [k \in 1..6 |-> R(ds.bounds[k])]

----------------------------------------------------------------------------
(* Normal resolution, plane construction, clip and slice.                  *)

NORMALS_SignSlip ==
    ( <<"x">> :> <<1, 0, 0>> ) @@ ( <<"y">> :> <<0, 1, 0>> ) @@
    ( <<"z">> :> <<0, 0, 1>> ) @@ ( <<"-", "x">> :> <<-1, 0, 0>> ) @@
    ( <<"-", "y">> :> <<0, 1, 0>> ) @@ ( <<"-", "z">> :> <<0, 0, -1>> )

NORMALS ==
    ( <<"x">> :> <<1, 0, 0>> ) @@ ( <<"y">> :> <<0, 1, 0>> ) @@
    ( <<"z">> :> <<0, 0, 1>> ) @@ ( <<"-", "x">> :> <<-1, 0, 0>> ) @@
    ( <<"-", "y">> :> <<0, -1, 0>> ) @@ ( <<"-", "z">> :> <<0, 0, -1>> )

\* normal = NORMALS[normal.lower()] for a string; anything else is kept.
NormalKnown(normal) == normal.t = "str" => Lower(normal.s) \in DOMAIN NORMALS

ResolveNormal(normal) ==
    IF normal.t = "str" THEN Vec(NORMALS[Lower(normal.s)]) ELSE normal

ResolveOrigin(ds, origin) == IF origin = None THEN Vec(Center(ds)) ELSE origin

\* _generate_plane subscripts normal[0..2] and origin[0..2].
PlaneBuildable(normal, origin) ==
    /\ normal.t = "vec" /\ Len(normal.v) >= 3
    /\ origin.t = "vec" /\ Len(origin.v) >= 3

_generate_plane(normal, origin) ==
    [normal |-> SubSeq(normal.v, 1, 3), origin |-> SubSeq(origin.v, 1, 3)]

\* without the copy of the meta information: the output keeps the designation
\* of a new dataset, (point data, None)
_get_outputNoMeta(ido, data) == [data |-> data, active |-> <<0, None>>]

\* _get_output: the algorithm's output, wrapped, with the meta information
\* (the active scalar designation) of the algorithm's input copied onto it.
_get_output(ido, data) == [data |-> data, active |-> ido.active]

clip(ds, normal, origin, invert) ==
    IF ~NormalKnown(normal) THEN Raise(KeyError, <<>>)
    ELSE LET n == ResolveNormal(normal)
             o == ResolveOrigin(ds, origin)
         IN  IF ~PlaneBuildable(n, o) THEN Raise(TypeError, <<"vtkPlane">>)
             ELSE LET alg == [kind |-> "vtkClipDataSet",
                              plane |-> _generate_plane(n, o),
                              inside_out |-> invert]
                  IN  Return(_get_output(ds, alg),
                             <<"vtkPlane", "vtkClipDataSet", "Update">>)

sliceNoBoundsCheck(ds, normal, origin, generate_triangles) ==
    IF ~NormalKnown(normal) THEN Raise(KeyError, <<>>)
    ELSE LET n == ResolveNormal(normal)
             o == ResolveOrigin(ds, origin)
         IN  IF ~PlaneBuildable(n, o) THEN Raise(TypeError, <<"vtkPlane">>)
             ELSE LET alg == [kind |-> "vtkCutter",
                              plane |-> _generate_plane(n, o),
                              triangles |-> generate_triangles]
                  IN  Return(_get_output(ds, alg),
                             <<"vtkPlane", "vtkCutter", "Update">>)

slice(ds, normal, origin, generate_triangles) ==
    IF ~NormalKnown(normal) THEN Raise(KeyError, <<>>)
    ELSE LET n == ResolveNormal(normal)
             o == ResolveOrigin(ds, origin)
         IN  IF ~is_inside_bounds(o.v, RBounds(ds))
             THEN Raise(SliceOutsideBounds, <<>>)
             ELSE IF ~PlaneBuildable(n, o) THEN Raise(TypeError, <<"vtkPlane">>)
             ELSE LET alg == [kind |-> "vtkCutter",
                              plane |-> _generate_plane(n, o),
                              triangles |-> generate_triangles]
                  IN  Return(_get_output(ds, alg),
                             <<"vtkPlane", "vtkCutter", "Update">>)

----------------------------------------------------------------------------
(* slice_along_axis.                                                       *)

AxisNotUnderstood == "RuntimeError: Axis not understood"

axes == ( <<"x">> :> 0 ) @@ ( <<"y">> :> 1 ) @@ ( <<"z">> :> 2 )

\* Python's seq[i]: 0-based, negative indices count from the end.
PyIndexOk(seq, i) == -Len(seq) <= i /\ i < Len(seq)

PyIndex(seq, i) == IF i >= 0 THEN seq[i + 1] ELSE seq[Len(seq) + i + 1]

PySetIndex(seq, i, v) ==
    [seq EXCEPT ![IF i >= 0 THEN i + 1 ELSE Len(seq) + i + 1] = v]

linspaceNoEndpoint(start, stop, n, i) ==
    RAdd(start, RDiv(RMul(R(i), RSub(stop, start)), R(n)))

\* np.linspace(start, stop, n)[i]
linspace(start, stop, n, i) ==
    IF n = 1 THEN start
    ELSE RAdd(start, RDiv(RMul(R(i), RSub(stop, start)), R(n - 1)))

DigitChar == <<"0", "1", "2", "3", "4", "5", "6", "7", "8", "9">>

RECURSIVE Digits(_)
Digits(i) ==
    IF i < 10 THEN <<DigitChar[i + 1]>>
    ELSE Digits(i \div 10) \o <<DigitChar[(i % 10) + 1]>>

\* 'slice%.2d' % i
SliceLabel(i) ==
    <<"s", "l", "i", "c", "e">> \o (IF i < 10 THEN <<"0">> ELSE <<>>) \o Digits(i)

\* The loop "for i in range(n)" from iteration i on; the first slice that
\* raises ends the call with its error.
RECURSIVE SliceLoop(_, _, _, _, _, _, _, _, _, _)
SliceLoop(ds, axis, ax, start, stop, n, generate_triangles, i, blocks, events) ==
    IF i >= n THEN Return([kind |-> "MultiBlock", blocks |-> blocks], events)
    ELSE LET center == PySetIndex(Center(ds), ax, linspace(start, stop, n, i))
             slc == slice(ds, axis, Vec(center), generate_triangles)
         IN  IF slc.err # "" THEN Raise(slc.err, events \o slc.events)
             ELSE SliceLoop(ds, axis, ax, start, stop, n, generate_triangles, i + 1,
                            Append(blocks, [index |-> i, label |-> SliceLabel(i),
                                            data |-> slc.out]),
                            events \o slc.events)

AxisIndex(axis) == IF axis.t = "str" THEN axes[axis.s] ELSE axis.i

slice_along_axis(ds, n, axis, tolerance, generate_triangles) ==
    IF axis.t = "str" /\ axis.s \notin DOMAIN axes
    THEN Raise(AxisNotUnderstood, <<"MultiBlock">>)
    ELSE LET ax == AxisIndex(axis)
             b == RBounds(ds)
         IN  IF ~PyIndexOk(b, ax * 2 + 1) \/ ~PyIndexOk(b, ax * 2)
             THEN Raise(IndexError, <<"MultiBlock">>)
             ELSE LET lo == PyIndex(b, ax * 2)
                      hi == PyIndex(b, ax * 2 + 1)
                      tol == IF tolerance = None
                             THEN RMul(RSub(hi, lo), Rat(1, 100))
                             ELSE tolerance.r
                  IN  IF n > 0 /\ ~PyIndexOk(Center(ds), ax)
                      THEN Raise(IndexError, <<"MultiBlock">>)
                      ELSE SliceLoop(ds, axis, ax, RAdd(lo, tol), RSub(hi, tol), n,
                                     generate_triangles, 0, <<>>, <<"MultiBlock">>)

----------------------------------------------------------------------------
(* Python floats of the scalar arrays, thresholds and percentages: IEEE    *)
(* 754 doubles.  A float is NaN or, as float.hex() writes it,              *)
(* (-1)^neg * 0x1.hhh...p+e: h holds the hexadecimal digits of the         *)
(* significand, the leading 1 first, without trailing zeros (empty for     *)
(* zero), so that equal numbers are equal records.  Each operation rounds  *)
(* its exact result to Precision bits, to nearest, ties to even.  The      *)
(* numbers met here are far from overflow and underflow.                   *)

Precision == 53

\* hexadecimal digits of a significand: one before the point, 13 after
HexDigits == (Precision + 3) \div 4

Zeros(k) == [i \in 1..(IF k > 0 THEN k ELSE 0) |-> 0]

NaN == [nan |-> TRUE, neg |-> FALSE, h |-> <<>>, e |-> 0]

Zero == [nan |-> FALSE, neg |-> FALSE, h |-> <<>>, e |-> 0]

RECURSIVE FirstNonZero(_, _)
FirstNonZero(x, i) == IF i > Len(x) \/ x[i] # 0 THEN i ELSE FirstNonZero(x, i + 1)

RECURSIVE LastNonZero(_, _)
LastNonZero(x, i) == IF i = 0 \/ x[i] # 0 THEN i ELSE LastNonZero(x, i - 1)

StripLead(x) == SubSeq(x, FirstNonZero(x, 1), Len(x))

\* float.fromhex: the float (-1)^neg * 0xh.hhh...p+e with leading digit 1
fromhex(neg, h, e) ==
    [nan |-> FALSE, neg |-> neg, h |-> SubSeq(h, 1, LastNonZero(h, Len(h))), e |-> e]

\* The hexadecimal digits of a natural number, most significant first.
RECURSIVE HexOf(_)
HexOf(n) == IF n = 0 THEN <<>> ELSE Append(HexOf(n \div 16), n % 16)

\* x + y + c on digit sequences, from digit i (counted from the right) up.
RECURSIVE AddFrom(_, _, _, _)
AddFrom(x, y, i, c) ==
    IF i >= Len(x) /\ i >= Len(y) THEN HexOf(c)
    ELSE LET t == (IF i < Len(x) THEN x[Len(x) - i] ELSE 0)
                  + (IF i < Len(y) THEN y[Len(y) - i] ELSE 0) + c
         IN  IF t < 16 THEN Append(AddFrom(x, y, i + 1, 0), t)
             ELSE Append(AddFrom(x, y, i + 1, 1), t - 16)

AddDigits(x, y) == AddFrom(x, y, 0, 0)

\* x - y - c on digit sequences, for x >= y.
RECURSIVE SubFrom(_, _, _, _)
SubFrom(x, y, i, c) ==
    IF i >= Len(x) THEN <<>>
    ELSE LET t == x[Len(x) - i] - (IF i < Len(y) THEN y[Len(y) - i] ELSE 0) - c
         IN  IF t < 0 THEN Append(SubFrom(x, y, i + 1, 1), t + 16)
             ELSE Append(SubFrom(x, y, i + 1, 0), t)

SubDigits(x, y) == SubFrom(x, y, 0, 0)

\* x * k + c for a digit sequence x and a small natural k.
RECURSIVE MulFrom(_, _, _, _)
MulFrom(x, k, i, c) ==
    IF i >= Len(x) THEN HexOf(c)
    ELSE LET t == x[Len(x) - i] * k + c
         IN  IF t < 16 THEN Append(MulFrom(x, k, i + 1, 0), t)
             ELSE Append(MulFrom(x, k, i + 1, t \div 16), t % 16)

MulSmall(x, k) == MulFrom(x, k, 0, 0)

\* x * y on digit sequences, digit by digit of y.
RECURSIVE MulDigits(_, _)
MulDigits(x, y) ==
    IF y = <<>> THEN <<>>
    ELSE AddDigits(Append(MulDigits(x, SubSeq(y, 1, Len(y) - 1)), 0),
                   MulSmall(x, y[Len(y)]))

\* Long division of the digit sequence x by the small natural d: the digits
\* of the quotient, followed by the remainder.
RECURSIVE LongDiv(_, _, _, _)
LongDiv(x, d, i, r) ==
    IF i > Len(x) THEN <<r>>
    ELSE LET t == 16 * r + x[i]
         IN  IF t < d THEN <<0>> \o LongDiv(x, d, i + 1, t)
             ELSE <<t \div d>> \o LongDiv(x, d, i + 1, t % d)

\* x < y on digit sequences compared from the left.
RECURSIVE DigitsLt(_, _, _)
DigitsLt(x, y, i) ==
    IF i > Len(x) /\ i > Len(y) THEN FALSE
    ELSE LET a == IF i <= Len(x) THEN x[i] ELSE 0
             b == IF i <= Len(y) THEN y[i] ELSE 0
         IN  IF a # b THEN a < b ELSE DigitsLt(x, y, i + 1)

\* |a| < |b|
MagLt(a, b) ==
    IF b.h = <<>> THEN FALSE
    ELSE IF a.h = <<>> THEN TRUE
    ELSE IF a.e # b.e THEN a.e < b.e
    ELSE DigitsLt(a.h, b.h, 1)

\* a < b on floats: false whenever a NaN is involved.
FLt(a, b) ==
    /\ ~a.nan
    /\ ~b.nan
    /\ IF a.neg /\ b.neg THEN MagLt(b, a)
       ELSE IF a.neg THEN TRUE
       ELSE IF b.neg THEN FALSE
       ELSE MagLt(a, b)

\* a <= b on floats: false whenever a NaN is involved.
FLe(a, b) == ~a.nan /\ ~b.nan /\ (a = b \/ FLt(a, b))

\* Rounding to nearest, ties to even.  The Precision leading bits are in
\* top, the next four bits in guard, and more tells whether anything
\* follows them: round up above the half, and on the half to the even side.
Nearest(top, guard, more) ==
    IF guard > 8 \/ (guard = 8 /\ (more \/ top[HexDigits] % 2 = 1))
    THEN AddDigits(top, <<1>>)
    ELSE top

\* 0x1.fff...f rounds up to 0x2.000...0, which is 0x1p+1.
Carried(neg, r, p) ==
    IF r[1] = 2 THEN fromhex(neg, <<1>>, p + 1) ELSE fromhex(neg, r, p)

\* The float nearest to (-1)^neg * y * 2^e2, the integer y given by digits
\* of which the first is 1.
Cut(neg, y, e2, sticky) ==
    IF Len(y) <= HexDigits /\ ~sticky THEN fromhex(neg, y, e2 + 4 * (Len(y) - 1))
    ELSE Carried(neg,
                 Nearest(SubSeq(y \o Zeros(HexDigits - Len(y)), 1, HexDigits),
                         IF Len(y) > HexDigits THEN y[HexDigits + 1] ELSE 0,
                         sticky \/ LastNonZero(y, Len(y)) > HexDigits + 1),
                 e2 + 4 * (Len(y) - 1))

\* The bits to shift a leading digit by, so that the leading digit becomes 1.
LeadShift(d) == IF d = 1 THEN 0 ELSE IF d < 4 THEN 3 ELSE IF d < 8 THEN 2 ELSE 1

LeadOne(neg, x, k, e2, sticky) ==
    Cut(neg, IF k = 0 THEN x ELSE MulSmall(x, 2^k), e2 - k, sticky)

Rounded(neg, x, e2, sticky) ==
    IF x = <<>> THEN Zero ELSE LeadOne(neg, x, LeadShift(x[1]), e2, sticky)

\* The float nearest to (-1)^neg * x * 2^e2, x an integer given by its
\* digits, plus something below its last digit when sticky.
Round(neg, x, e2, sticky) == Rounded(neg, StripLead(x), e2, sticky)

\* The exponent of 2 that goes with the significand read as an integer.
Exp2(a) == a.e - 4 * (Len(a.h) - 1)

\* x * 2^s on digit sequences
ShiftLeft(x, s) ==
    (IF s % 4 = 0 THEN x ELSE MulSmall(x, 2^(s % 4))) \o Zeros(s \div 4)

FNeg(a) == IF a.nan \/ a.h = <<>> THEN a ELSE [a EXCEPT !.neg = ~a.neg]

\* a + b for significands x and y aligned at the exponent e0: the sum of the
\* magnitudes under equal signs, else their difference under the sign of the
\* larger.
AddAligned(a, b, x, y, e0) ==
    Round(IF a.neg = b.neg \/ ~MagLt(a, b) THEN a.neg ELSE b.neg,
          IF a.neg = b.neg THEN AddDigits(x, y)
          ELSE IF MagLt(a, b) THEN SubDigits(y, x)
          ELSE SubDigits(x, y),
          e0, FALSE)

AddAt(a, b, e0) ==
    AddAligned(a, b, ShiftLeft(a.h, Exp2(a) - e0), ShiftLeft(b.h, Exp2(b) - e0), e0)

FAdd(a, b) ==
    IF a.nan \/ b.nan THEN NaN
    ELSE IF a.h = <<>> THEN b
    ELSE IF b.h = <<>> THEN a
    ELSE AddAt(a, b, IF Exp2(a) < Exp2(b) THEN Exp2(a) ELSE Exp2(b))

FSub(a, b) == FAdd(a, FNeg(b))

FMul(a, b) ==
    IF a.nan \/ b.nan THEN NaN
    ELSE IF a.h = <<>> \/ b.h = <<>> THEN Zero
    ELSE Round(a.neg # b.neg,
               IF Len(a.h) < Len(b.h) THEN MulDigits(b.h, a.h) ELSE MulDigits(a.h, b.h),
               Exp2(a) + Exp2(b), FALSE)

\* The float of a quotient: qr holds its digits, followed by the remainder.
Quotient(neg, qr, e2) ==
    Round(neg, SubSeq(qr, 1, Len(qr) - 1), e2, qr[Len(qr)] # 0)

\* The dividend is extended by s digits, for a quotient of enough digits.
DivExtended(a, k, s) ==
    Quotient(a.neg, LongDiv(a.h \o Zeros(s), k, 1, 0), Exp2(a) - 4 * s)

\* a / float(k) for a natural number k > 0
FDivInt(a, k) ==
    IF a.nan THEN NaN
    ELSE IF a.h = <<>> THEN Zero
    ELSE DivExtended(a, k, HexDigits + 2 + Len(HexOf(k)))

\* float(i)
Num(i) == Round(i < 0, HexOf(Abs(i)), 0, FALSE)

----------------------------------------------------------------------------
(* Scalar arrays of the dataset.  Field 0 is point data, field 1 is cell   *)
(* data.  The mesh of a dataset with arrays is a closed polyline: cell c    *)
(* joins the points c and c + 1, the last cell joins the last point and    *)
(* the first.                                                              *)

POINT_DATA_FIELD == 0

CELL_DATA_FIELD == 1

CellPoints(ds, c) == <<c, (c % ds.n_cells) + 1>>

\* The point data holds the scalar arrays (point_arrays) and the arrays of
\* texture coordinates (t_arrays); tcoords names the designated one of the
\* latter, or is None.
n_scalars(ds) ==
    Cardinality(DOMAIN ds.point_arrays) + Cardinality(DOMAIN ds.t_arrays)
        + Cardinality(DOMAIN ds.cell_arrays)

\* With no array at all active_scalar_info is (POINT_DATA_FIELD, None).
NoActive == <<POINT_DATA_FIELD, None>>

\* dataset.active_scalar_info: (field, name)
active_scalar_info(ds) == ds.active

\* vtki.utilities.get_scalar(mesh, name, preference, info=True): (arr, field)
get_scalar(ds, name, preference) ==
    LET isp == name.t = "str" /\ name.s \in DOMAIN ds.point_arrays
        isc == name.t = "str" /\ name.s \in DOMAIN ds.cell_arrays
    IN  IF isp /\ isc
        THEN IF preference = "cell"
             THEN [found |-> TRUE, arr |-> ds.cell_arrays[name.s], field |-> CELL_DATA_FIELD]
             ELSE [found |-> TRUE, arr |-> ds.point_arrays[name.s], field |-> POINT_DATA_FIELD]
        ELSE IF isp
        THEN [found |-> TRUE, arr |-> ds.point_arrays[name.s], field |-> POINT_DATA_FIELD]
        ELSE IF isc
        THEN [found |-> TRUE, arr |-> ds.cell_arrays[name.s], field |-> CELL_DATA_FIELD]
        ELSE [found |-> FALSE, arr |-> <<>>, field |-> -1]

\* np.nanmin / np.nanmax: NaN entries are ignored; all-NaN gives NaN.
nanmin(arr) ==
    LET nums == {i \in 1..Len(arr) : ~arr[i].nan}
    IN  IF nums = {} THEN NaN
        ELSE arr[CHOOSE i \in nums : \A j \in nums : FLe(arr[i], arr[j])]

nanmax(arr) ==
    LET nums == {i \in 1..Len(arr) : ~arr[i].nan}
    IN  IF nums = {} THEN NaN
        ELSE arr[CHOOSE i \in nums : \A j \in nums : FLe(arr[j], arr[i])]

\* dataset.get_data_range(arr, preference): (min, max), NaN when unresolved
get_data_range(ds, name, preference) ==
    LET nm == IF name = None THEN active_scalar_info(ds)[2] ELSE name
        got == get_scalar(ds, nm, preference)
    IN  IF ~got.found THEN <<NaN, NaN>> ELSE <<nanmin(got.arr), nanmax(got.arr)>>

----------------------------------------------------------------------------
(* threshold.                                                              *)

PyNum(x) == [t |-> "num", x |-> x]

PySeq(v) == [t |-> "seq", v |-> v]

\* isinstance(value, collections.Iterable)
IsIterable(value) == value.t = "seq"

NoArraysToThreshold == "AssertionError: No arrays present to threshold."

ValueRangeLength == "AssertionError: Value range must be length one for a float value or two for min/max"

\* The criterion set by ThresholdBetween / ThresholdByLower / ThresholdByUpper.
Criterion(mode, lo, hi, v) ==
    CASE mode = "between" -> FLe(lo, v) /\ FLe(v, hi)
      [] mode = "lower" -> FLe(v, lo)
      [] mode = "upper" -> FLe(lo, v)

\* vtkThreshold keeps a cell of cell data when its scalar meets the
\* criterion; of point data when all its points do, or, with the continuous
\* cell range, when [min, max] over its points intersects the threshold.
KeepCell(ds, got, mode, lo, hi, continuous, c) ==
    IF got.field = CELL_DATA_FIELD THEN Criterion(mode, lo, hi, got.arr[c])
    ELSE IF ~continuous
    THEN \A i \in 1..2 : Criterion(mode, lo, hi, got.arr[CellPoints(ds, c)[i]])
    ELSE LET pts == [i \in 1..2 |-> got.arr[CellPoints(ds, c)[i]]]
             cmin == nanmin(pts)
             cmax == nanmax(pts)
         IN  CASE mode = "between" -> FLe(lo, cmax) /\ FLe(cmin, hi)
               [] mode = "lower" -> FLe(cmin, lo)
               [] mode = "upper" -> FLe(lo, cmax)

RECURSIVE KeptCells(_, _, _, _, _, _, _)
KeptCells(ds, got, mode, lo, hi, continuous, c) ==
    IF c > ds.n_cells THEN <<>>
    ELSE (IF KeepCell(ds, got, mode, lo, hi, continuous, c) THEN <<c>> ELSE <<>>)
         \o KeptCells(ds, got, mode, lo, hi, continuous, c + 1)

vtkThreshold(ds, got, name, mode, lo, hi, continuous) ==
    [kind |-> "vtkThreshold", field |-> got.field, scalars |-> name, mode |-> mode,
     lo |-> lo, hi |-> hi, continuous |-> continuous,
     cells |-> KeptCells(ds, got, mode, lo, hi, continuous, 1)]

vtkAppendFilterFirstOnly(t1, t2) ==
    [kind |-> "vtkAppendFilter", inputs |-> <<t1.data, t2.data>>,
     cells |-> t1.data.cells]

\* vtkAppendFilter: the cells of the inputs, one input after the other.
vtkAppendFilter(t1, t2) ==
    [kind |-> "vtkAppendFilter", inputs |-> <<t1.data, t2.data>>,
     cells |-> t1.data.cells \o t2.data.cells]

\* A call of threshold is bracketed in the events, so that its nesting shows.
Call(r) == [r EXCEPT !.events = <<"threshold(">> \o @ \o <<")">>]

RECURSIVE threshold(_, _, _, _, _, _)
threshold(ds, value, scalars, invert, continuous, preference) ==
    LET name == IF scalars = None THEN active_scalar_info(ds)[2] ELSE scalars
        got == get_scalar(ds, name, preference)
    IN  IF ~got.found THEN Call(Raise(NoArraysToThreshold, <<>>))
        ELSE IF IsIterable(value) /\ invert
        THEN LET valid_range == <<nanmin(got.arr), nanmax(got.arr)>>
             IN  IF Len(value.v) < 1 THEN Call(Raise(IndexError, <<>>))
                 ELSE LET t1 == threshold(ds, PySeq(<<valid_range[1], value.v[1]>>),
                                          name, FALSE, continuous, preference)
                      IN  IF t1.err # "" THEN Call(Raise(t1.err, t1.events))
                          ELSE IF Len(value.v) < 2
                          THEN Call(Raise(IndexError, t1.events))
                          ELSE LET t2 == threshold(ds, PySeq(<<value.v[2], valid_range[2]>>),
                                                   name, FALSE, continuous, preference)
                               IN  IF t2.err # ""
                                   THEN Call(Raise(t2.err, t1.events \o t2.events))
                                   ELSE Call(Return(
                                       _get_output(t1.out, vtkAppendFilter(t1.out, t2.out)),
                                       t1.events \o t2.events
                                           \o <<"vtkAppendFilter", "Update">>))
        ELSE LET v == IF value = None
                      THEN PySeq(get_data_range(ds, name, "cell"))
                      ELSE value
             IN  IF IsIterable(v)
                 THEN IF Len(v.v) # 2
                      THEN Call(Raise(ValueRangeLength, <<"vtkThreshold">>))
                      ELSE Call(Return(
                          _get_output(ds, vtkThreshold(ds, got, name, "between",
                                                       v.v[1], v.v[2], continuous)),
                          <<"vtkThreshold", "Update">>))
                 ELSE Call(Return(
                          _get_output(ds, vtkThreshold(ds, got, name,
                                                       IF invert THEN "lower" ELSE "upper",
                                                       v.x, v.x, continuous)),
                          <<"vtkThreshold", "Update">>))

----------------------------------------------------------------------------
(* threshold_percent.                                                      *)

PercentOutOfRange == "RuntimeError: Percentage is out of range (0, 1)."

PercentTooSmall == "RuntimeError: Percentage is too close to zero or negative."

One == Num(1)

\* the literal 1e-10
Float_1e_10 == fromhex(FALSE, <<1, 11, 7, 12, 13, 15, 13, 9, 13, 7, 11, 13, 11, 11>>, -34)

\* "<= 1e-10" for "< 1e-10"
_check_percentStrict(percent) ==
    LET p == IF FLe(One, percent) THEN FDivInt(percent, 100) ELSE percent
    IN  IF FLe(One, percent) /\ FLt(One, p)
        THEN [err |-> PercentOutOfRange, percent |-> p]
        ELSE IF FLe(p, Float_1e_10)
        THEN [err |-> PercentTooSmall, percent |-> p]
        ELSE [err |-> "", percent |-> p]

\* without the "> 1" test after the division
_check_percentNoUpper(percent) ==
    LET p == IF FLe(One, percent) THEN FDivInt(percent, 100) ELSE percent
    IN  IF FLt(p, Float_1e_10)
        THEN [err |-> PercentTooSmall, percent |-> p]
        ELSE [err |-> "", percent |-> p]

\* "> 1" for ">= 1" in the test that divides
_check_percentGt(percent) ==
    LET p == IF FLt(One, percent) THEN FDivInt(percent, 100) ELSE percent
    IN  IF FLt(One, percent) /\ FLt(One, p)
        THEN [err |-> PercentOutOfRange, percent |-> p]
        ELSE IF FLt(p, Float_1e_10)
        THEN [err |-> PercentTooSmall, percent |-> p]
        ELSE [err |-> "", percent |-> p]

\* if percent < 1e-10: raise ...; return percent
Checked(percent) ==
    IF FLt(percent, Float_1e_10) THEN [err |-> PercentTooSmall, percent |-> percent]
    ELSE [err |-> "", percent |-> percent]

\* after the division: if percent > 1: raise ...
Divided(percent) ==
    IF FLt(One, percent) THEN [err |-> PercentOutOfRange, percent |-> percent]
    ELSE Checked(percent)

_check_percent(percent) ==
    IF FLe(One, percent) THEN Divided(FDivInt(percent, 100)) ELSE Checked(percent)

\* dmin + float(percent) * (dmax - dmin), for a percent that passed the check
Scaled(c, dmin, dmax) ==
    IF c.err # "" THEN [err |-> c.err, val |-> NaN]
    ELSE [err |-> "", val |-> FAdd(dmin, FMul(c.percent, FSub(dmax, dmin)))]

_get_val(percent, dmin, dmax) == Scaled(_check_percent(percent), dmin, dmax)

\* value = [_get_val(percent[0], ...), _get_val(percent[1], ...)], v0 and v1
\* the outcomes of the two calls
PairValue(v0, v1) ==
    IF v1.err # "" THEN [err |-> v1.err, value |-> None]
    ELSE [err |-> "", value |-> PySeq(<<v0.val, v1.val>>)]

FirstValue(v0, percent, dmin, dmax) ==
    IF v0.err # "" THEN [err |-> v0.err, value |-> None]
    ELSE IF Len(percent.v) < 2 THEN [err |-> IndexError, value |-> None]
    ELSE PairValue(v0, _get_val(percent.v[2], dmin, dmax))

\* value = _get_val(percent, dmin, dmax)
SingleValue(v) ==
    IF v.err # "" THEN [err |-> v.err, value |-> None]
    ELSE [err |-> "", value |-> PyNum(v.val)]

\* The value handed to threshold, or the error raised on the way to it.
PercentValue(percent, dmin, dmax) ==
    IF IsIterable(percent)
    THEN IF Len(percent.v) < 1 THEN [err |-> IndexError, value |-> None]
         ELSE FirstValue(_get_val(percent.v[1], dmin, dmax), percent, dmin, dmax)
    ELSE SingleValue(_get_val(percent.d, dmin, dmax))

\* return DataSetFilters.threshold(dataset, value=value, ...)
Delegate(ds, value, scalars, invert, continuous, preference) ==
    IF value.err # "" THEN Raise(value.err, <<>>)
    ELSE threshold(ds, value.value, scalars, invert, continuous, preference)

InRange(ds, percent, rng, scalars, invert, continuous, preference) ==
    Delegate(ds, PercentValue(percent, rng[1], rng[2]), scalars, invert, continuous,
             preference)

threshold_percent(ds, percent, scalars, invert, continuous, preference) ==
    InRange(ds, percent,
            get_data_range(ds, IF scalars = None THEN active_scalar_info(ds)[2]
                                   ELSE scalars, preference),
            scalars, invert, continuous, preference)

----------------------------------------------------------------------------
(* contour.                                                                *)

NoScalarData == "AssertionError: Input dataset for the contour filter must have scalar data."

ContourCellData == "AssertionError: Contour filter only works on Point data."

IsosurfacesNotUnderstood == "RuntimeError: isosurfaces not understood."

\* without the test of the field
contourAnyField(ds, isosurfaces, scalars, compute_normals, compute_gradients, compute_scalars, preference) ==
    IF n_scalars(ds) < 1 THEN Raise(NoScalarData, <<>>)
    ELSE LET info == active_scalar_info(ds)
             name == IF scalars = None THEN info[2] ELSE scalars
             field == IF scalars = None THEN info[1]
                      ELSE get_scalar(ds, scalars, preference).field
             alg == [kind |-> "vtkContourFilter", normals |-> compute_normals,
                     gradients |-> compute_gradients, keep_scalars |-> compute_scalars,
                     field |-> field, scalars |-> name]
         IN  IF isosurfaces.t = "int"
             THEN Return(_get_output(ds, alg @@ [generate |->
                             <<isosurfaces.i, get_data_range(ds, name, "cell")>>]),
                         <<"vtkContourFilter", "Update">>)
             ELSE IF IsIterable(isosurfaces)
             THEN Return(_get_output(ds, alg @@ [values |-> isosurfaces.v]),
                         <<"vtkContourFilter", "Update">>)
             ELSE Raise(IsosurfacesNotUnderstood, <<"vtkContourFilter">>)

contour(ds, isosurfaces, scalars, compute_normals, compute_gradients, compute_scalars, preference) ==
    IF n_scalars(ds) < 1 THEN Raise(NoScalarData, <<>>)
    ELSE LET info == active_scalar_info(ds)
             name == IF scalars = None THEN info[2] ELSE scalars
             field == IF scalars = None THEN info[1]
                      ELSE get_scalar(ds, scalars, preference).field
             alg == [kind |-> "vtkContourFilter", normals |-> compute_normals,
                     gradients |-> compute_gradients, keep_scalars |-> compute_scalars,
                     field |-> field, scalars |-> name]
         IN  IF field # 0 THEN Raise(ContourCellData, <<"vtkContourFilter">>)
             ELSE IF isosurfaces.t = "int"
             THEN Return(_get_output(ds, alg @@ [generate |->
                             <<isosurfaces.i, get_data_range(ds, name, "cell")>>]),
                         <<"vtkContourFilter", "Update">>)
             ELSE IF IsIterable(isosurfaces)
             THEN Return(_get_output(ds, alg @@ [values |-> isosurfaces.v]),
                         <<"vtkContourFilter", "Update">>)
             ELSE Raise(IsosurfacesNotUnderstood, <<"vtkContourFilter">>)

----------------------------------------------------------------------------
(* slice_orthogonal.                                                       *)

\* x, y and z default to the coordinates of the center.
Coordinate(ds, c, k) == IF c = None THEN Center(ds)[k] ELSE c.r

\* The three slices are made in the order YZ, XZ, XY; the first one that
\* raises ends the call with its error.
slice_orthogonal(ds, x, y, z, generate_triangles) ==
    LET o == Vec(<<Coordinate(ds, x, 1), Coordinate(ds, y, 2), Coordinate(ds, z, 3)>>)
        yz == slice(ds, Str(<<"x">>), o, generate_triangles)
        xz == slice(ds, Str(<<"y">>), o, generate_triangles)
        xy == slice(ds, Str(<<"z">>), o, generate_triangles)
    IN  IF yz.err # "" THEN Raise(yz.err, <<"MultiBlock">> \o yz.events)
        ELSE IF xz.err # ""
        THEN Raise(xz.err, <<"MultiBlock">> \o yz.events \o xz.events)
        ELSE IF xy.err # ""
        THEN Raise(xy.err, <<"MultiBlock">> \o yz.events \o xz.events \o xy.events)
        ELSE Return([kind |-> "MultiBlock",
                     blocks |-> << [index |-> 0, label |-> <<"Y", "Z">>, data |-> yz.out],
                                   [index |-> 1, label |-> <<"X", "Z">>, data |-> xz.out],
                                   [index |-> 2, label |-> <<"X", "Y">>, data |-> xy.out] >>],
                    <<"MultiBlock">> \o yz.events \o xz.events \o xy.events)

----------------------------------------------------------------------------
(* outline, outline_corners, extract_geometry and wireframe.               *)

\* vtki.wrap: the kernel object as a dataset of its own, with the meta
\* information of a new dataset.
wrap(data) == [data |-> data, active |-> NoActive]

outline(ds, generate_faces) ==
    Return(wrap([kind |-> "vtkOutlineFilter", bounds |-> ds.bounds,
                 generate_faces |-> generate_faces]),
           <<"vtkOutlineFilter", "Update">>)

outline_corners(ds, factor) ==
    Return(wrap([kind |-> "vtkOutlineCornerFilter", bounds |-> ds.bounds,
                 factor |-> factor]),
           <<"vtkOutlineCornerFilter", "Update">>)

extract_geometry(ds) ==
    Return(_get_output(ds, [kind |-> "vtkGeometryFilter", n_cells |-> ds.n_cells]),
           <<"vtkGeometryFilter", "Update">>)

wireframe(ds) ==
    Return(_get_output(ds, [kind |-> "vtkExtractEdges", n_cells |-> ds.n_cells]),
           <<"vtkExtractEdges", "Update">>)

----------------------------------------------------------------------------
(* elevation.                                                              *)

ScalarRangeLength ==
    "AssertionError: scalar_range must have a length of two defining the min and max"

ScalarRangeNotUnderstood == "RuntimeError: scalar_range argument not understood."

Elevation == <<"Elevation">>

\* data.set_active_scalar(active_scalar, preference=active_scalar_field) of
\* _get_output: the named array of that field becomes the active scalar.
set_active_scalar(data, name, field) == [data EXCEPT !.active = <<field, Str(name)>>]

\* low_point[2] = dataset.bounds[4], high_point[2] = dataset.bounds[5]
ProjectionPoint(ds, point, k) ==
    IF point = None THEN Vec([Center(ds) EXCEPT ![3] = R(ds.bounds[k])]) ELSE point

\* The kernel's filter adds the point array Elevation to a copy of its input.
vtkElevationFilter(ds, scalar_range, low_point, high_point) ==
    [kind |-> "vtkElevationFilter", scalar_range |-> scalar_range,
     low_point |-> low_point.v, high_point |-> high_point.v,
     arrays |-> DOMAIN ds.point_arrays \cup {Elevation}]

Elevated(ds, scalar_range, low_point, high_point, set_active) ==
    LET output == _get_output(ds, vtkElevationFilter(ds, scalar_range, low_point,
                                                     high_point))
    IN  Return(IF set_active
               THEN set_active_scalar(output, Elevation, POINT_DATA_FIELD)
               ELSE output,
               <<"vtkElevationFilter", "Update">>)

elevation(ds, low_point, high_point, scalar_range, preference, set_active) ==
    LET low == ProjectionPoint(ds, low_point, 5)
        high == ProjectionPoint(ds, high_point, 6)
    IN  IF scalar_range = None
        THEN Elevated(ds, <<low.v[3], high.v[3]>>, low, high, set_active)
        ELSE IF scalar_range.t = "str"
        THEN Elevated(ds, get_data_range(ds, scalar_range, preference), low, high,
                      set_active)
        ELSE IF IsIterable(scalar_range)
        THEN IF Len(scalar_range.v) # 2 THEN Raise(ScalarRangeLength, <<>>)
             ELSE Elevated(ds, scalar_range.v, low, high, set_active)
        ELSE Raise(ScalarRangeNotUnderstood, <<>>)

----------------------------------------------------------------------------
(* texture_map_to_plane.  The arrays of texture coordinates of a point     *)
(* data are held by name, as the kernel's AddArray holds them: adding an   *)
(* array under a name in use replaces the array of that name.  An array is *)
(* [name, coords]; the coordinates are told apart by the plane they were   *)
(* computed on.  The names of texture arrays and of scalar arrays are kept *)
(* apart.                                                                  *)

AttributeError == "AttributeError"

TextureCoordinates == <<"Texture Coordinates">>

TArray(name, coords) == [t |-> "array", name |-> name, coords |-> coords]

\* GetPointData().GetTCoords(): the designated array, or None
GetTCoords(pd) ==
    IF pd.tcoords = None THEN None ELSE TArray(pd.tcoords.s, pd.t_arrays[pd.tcoords.s])

\* t_coords.SetName(name)
SetName(arr, name) == [arr EXCEPT !.name = name]

\* GetPointData().RemoveArray: a designated array removed leaves none designated.
RemoveArray(pd, name) ==
    [pd EXCEPT !.t_arrays = [n \in DOMAIN @ \ {name} |-> @[n]],
               !.tcoords = IF @ = Str(name) THEN None ELSE @]

\* GetPointData().AddArray(array): nothing is added for None; an array of
\* the same name is replaced where it stands, whatever it is designated as.
AddArray(pd, arr) ==
    IF arr = None THEN pd
    ELSE [pd EXCEPT !.t_arrays = (arr.name :> arr.coords) @@ @]

\* GetPointData().SetTCoords(array): the array designated so far is removed,
\* the new one is added and designated.
SetTCoords(pd, arr) ==
    LET cleared == IF pd.tcoords = None THEN pd ELSE RemoveArray(pd, pd.tcoords.s)
    IN  IF arr = None THEN cleared
        ELSE [AddArray(cleared, arr) EXCEPT !.tcoords = Str(arr.name)]

\* The kernel's filter copies the structure of its input; with fewer than
\* three points it stops there (automatic plane generation is on by default
\* and is not switched off here).  Otherwise it passes the point data but for
\* the designated texture coordinates and designates the new array, which it
\* names Texture Coordinates.
vtkTextureMapToPlane(ds, origin, point_u, point_v) ==
    LET structure == [kind |-> "vtkTextureMapToPlane", n_cells |-> ds.n_cells,
                      n_points |-> ds.n_points, t_arrays |-> <<>>, tcoords |-> None]
        passed == IF ds.tcoords = None THEN ds.t_arrays
                  ELSE RemoveArray(ds, ds.tcoords.s).t_arrays
    IN  IF ds.n_points < 3 THEN structure
        ELSE SetTCoords([structure EXCEPT !.t_arrays = passed],
                        TArray(TextureCoordinates,
                               [origin |-> origin.v, point_u |-> point_u.v,
                                point_v |-> point_v.v]))

\* The in-place part: lines 586 to 594.
Installed(ds, t_coords, name, events) ==
    IF t_coords = None
    THEN [res |-> Raise(AttributeError, events), dataset |-> ds]
    ELSE LET named == SetName(t_coords, name)
             otc == GetTCoords(ds)
         IN  [res |-> Return(NoOutput, events),
              dataset |-> AddArray(AddArray(SetTCoords(ds, named), named), otc)]

\* with the in-place part whatever the flag
texture_map_to_planeAlways(ds, origin, point_u, point_v, inplace, name) ==
    LET output == _get_output(ds, vtkTextureMapToPlane(ds, origin, point_u, point_v))
        events == <<"vtkTextureMapToPlane", "Update">>
    IN  Installed(ds, GetTCoords(output.data), name, events)

\* The outcome of the call and the dataset after it.
texture_map_to_plane(ds, origin, point_u, point_v, inplace, name) ==
    LET output == _get_output(ds, vtkTextureMapToPlane(ds, origin, point_u, point_v))
        events == <<"vtkTextureMapToPlane", "Update">>
    IN  IF ~inplace THEN [res |-> Return(output, events), dataset |-> ds]
        ELSE Installed(ds, GetTCoords(output.data), name, events)

----------------------------------------------------------------------------
(* Inputs.                                                                 *)

NCells == 2

MaxVal == 1

\* An empty vtkDataSet reports the uninitialised bounds (1,-1,1,-1,1,-1).
EmptyBounds == <<1, -1, 1, -1, 1, -1>>

BoundsChoices ==
    { <<0, 4, 0, 4, 0, 4>>, <<-2, 2, 0, 6, 1, 3>>, <<0, 4, -1, 1, 2, 2>> }

\* Datasets without scalar arrays, of varied geometry: an open polyline of
\* NCells cells, or no cell and no point.
GeometryDatasets ==
    { [bounds |-> b, n_cells |-> IF b = EmptyBounds THEN 0 ELSE NCells,
       n_points |-> IF b = EmptyBounds THEN 0 ELSE NCells + 1,
       point_arrays |-> <<>>, cell_arrays |-> <<>>, active |-> NoActive,
       t_arrays |-> <<>>, tcoords |-> None] :
      b \in BoundsChoices \cup {EmptyBounds} }

Vals == {NaN} \cup {Num(i) : i \in 0..MaxVal}

A == <<"a">>

\* Datasets with an array named a in the point data, the cell data or both;
\* the active scalar is one of the arrays present.
ArrayDatasets ==
    { [bounds |-> <<0, 4, 0, 4, 0, 4>>, n_cells |-> NCells, n_points |-> NCells,
       point_arrays |-> IF l[1] THEN (A :> vv) ELSE <<>>,
       cell_arrays |-> IF l[2] THEN (A :> vv) ELSE <<>>,
       active |-> <<l[3], Str(A)>>,
       t_arrays |-> <<>>, tcoords |-> None] :
      vv \in [1..NCells -> Vals],
      l \in { <<TRUE, FALSE, POINT_DATA_FIELD>>, <<FALSE, TRUE, CELL_DATA_FIELD>>,
              <<TRUE, TRUE, POINT_DATA_FIELD>>, <<TRUE, TRUE, CELL_DATA_FIELD>> } }

Datasets == GeometryDatasets \cup ArrayDatasets

\* The datasets the whole filter layer is run on: those without arrays and,
\* of each layout of the array a, the one holding 1, 0, 1, ...
FilterDatasets ==
    GeometryDatasets
        \cup { d \in ArrayDatasets :
                 \A f \in {d.point_arrays, d.cell_arrays} :
                     A \in DOMAIN f => f[A] = [i \in 1..NCells |-> Num(i % 2)] }

NormalChoices ==
    { Str(<<"x">>), Str(<<"y">>), Str(<<"z">>), Str(<<"-", "x">>),
      Str(<<"-", "y">>), Str(<<"-", "z">>), Str(<<"X">>), Str(<<"-", "Z">>),
      Str(<<"q">>), Str(<<>>), Vec(<<1, 2, -1>>), PyInt(0) }

OriginChoices ==
    { None, Vec(<<R(1), R(1), R(2)>>), Vec(<<R(5), R(1), R(2)>>),
      Vec(<<Rat(1, 2), Rat(-1, 2), R(2)>>), Vec(<<R(0), R(0), R(0)>>) }

MaxN == 3

AxisChoices ==
    { Str(<<"x">>), Str(<<"y">>), Str(<<"z">>), Str(<<"X">>),
      PyInt(0), PyInt(1), PyInt(2), PyInt(3), PyInt(-1) }

Float(r) == [t |-> "float", r |-> r]

ToleranceChoices ==
    { None, Float(R(0)), Float(Rat(1, 2)), Float(R(3)) }

ScalarsChoices == { None, Str(A), Str(<<"z", "z">>) }

PreferenceChoices == { "cell", "point" }

ValueChoices ==
    { None, PyNum(Num(1)), PySeq(<<>>), PySeq(<<Num(1)>>),
      PySeq(<<Num(0), Num(1)>>), PySeq(<<Num(0), Num(MaxVal + 1)>>),
      PySeq(<<Num(1), Num(1)>>), PySeq(<<Num(MaxVal + 1), Num(0)>>),
      PySeq(<<Num(0), Num(1), Num(2)>>) }

PyPct(d) == [t |-> "pct", d |-> d]

\* 1e-11
Pct_1e_11 == fromhex(FALSE, <<1, 5, 15, 13, 7, 15, 14, 1, 7, 9, 6, 4, 9, 5>>, -37)

\* 0.01
Pct_0_01 == fromhex(FALSE, <<1, 4, 7, 10, 14, 1, 4, 7, 10, 14, 1, 4, 7, 11>>, -7)

\* 0.013
Pct_0_013 == fromhex(FALSE, <<1, 10, 9, 15, 11, 14, 7, 6, 12, 8, 11, 4, 3, 9>>, -7)

\* 0.25
Pct_0_25 == fromhex(FALSE, <<1>>, -2)

\* 0.5
Pct_0_5 == fromhex(FALSE, <<1>>, -1)

\* 0.75
Pct_0_75 == fromhex(FALSE, <<1, 8>>, -1)

\* 1.5
Pct_1_5 == fromhex(FALSE, <<1, 8>>, 0)

PercentChoices ==
    { PyPct(Zero), PyPct(Pct_1e_11), PyPct(Float_1e_10), PyPct(Pct_0_01),
      PyPct(Pct_0_013), PyPct(Pct_0_5), PyPct(One), PyPct(Pct_1_5),
      PyPct(Num(50)), PyPct(Num(100)), PyPct(Num(150)), PyPct(FNeg(Pct_0_5)),
      PySeq(<<Pct_0_25, Pct_0_75>>), PySeq(<<Num(25), Num(75)>>),
      PySeq(<<Pct_0_5, Num(150)>>), PySeq(<<Pct_0_5>>) }

CoordinateChoices == { None, Float(R(1)), Float(R(5)) }

FactorChoices == { Float(Rat(1, 5)), Float(Rat(1, 2)) }

LowPointChoices == { None, Vec(<<R(0), R(0), R(0)>>) }

HighPointChoices == { None, Vec(<<R(0), R(0), R(4)>>) }

ScalarRangeChoices ==
    { None, Str(A), Str(<<"z", "z">>), PySeq(<<Num(0), Num(1)>>), PySeq(<<Num(0)>>),
      PyNum(Num(1)) }

\* (origin, point_u, point_v)
PlaneChoices ==
    { <<Vec(<<R(0), R(0), R(1)>>), Vec(<<R(4), R(0), R(1)>>), Vec(<<R(0), R(4), R(1)>>)>>,
      <<Vec(<<R(1), R(0), R(0)>>), Vec(<<R(1), R(4), R(0)>>), Vec(<<R(1), R(0), R(4)>>)>> }

NameChoices == { TextureCoordinates, <<"uv">> }

IsosurfacesChoices == { PyInt(3), PySeq(<<Num(1)>>), None }

----------------------------------------------------------------------------
(* The state machine: the caller makes one call at a time on its dataset   *)
(* and takes the outcome before the next call.                             *)

Idle == Return(NoOutput, <<>>)

Init ==
    /\ dataset \in Datasets
    /\ op = "none"
    /\ args = None
    /\ res = Idle

Clip ==
    /\ op = "none"
    /\ \E normal \in NormalChoices, origin \in OriginChoices, invert \in BOOLEAN :
        /\ op' = "clip"
        /\ args' = [normal |-> normal, origin |-> origin, invert |-> invert]
        /\ res' = clip(dataset, normal, origin, invert)
        /\ UNCHANGED dataset

Slice ==
    /\ op = "none"
    /\ \E normal \in NormalChoices, origin \in OriginChoices,
          generate_triangles \in BOOLEAN :
        /\ op' = "slice"
        /\ args' = [normal |-> normal, origin |-> origin,
                    generate_triangles |-> generate_triangles]
        /\ res' = slice(dataset, normal, origin, generate_triangles)
        /\ UNCHANGED dataset

SliceAlongAxis ==
    /\ op = "none"
    /\ \E n \in 0..MaxN, axis \in AxisChoices, tolerance \in ToleranceChoices,
          generate_triangles \in BOOLEAN :
        /\ op' = "slice_along_axis"
        /\ args' = [n |-> n, axis |-> axis, tolerance |-> tolerance,
                    generate_triangles |-> generate_triangles]
        /\ res' = slice_along_axis(dataset, n, axis, tolerance, generate_triangles)
        /\ UNCHANGED dataset

Threshold ==
    /\ op = "none"
    /\ \E value \in ValueChoices, scalars \in ScalarsChoices, invert \in BOOLEAN,
          continuous \in BOOLEAN, preference \in PreferenceChoices :
        /\ op' = "threshold"
        /\ args' = [value |-> value, scalars |-> scalars, invert |-> invert,
                    continuous |-> continuous, preference |-> preference]
        /\ res' = threshold(dataset, value, scalars, invert, continuous, preference)
        /\ UNCHANGED dataset

ThresholdPercent ==
    /\ op = "none"
    /\ \E percent \in PercentChoices, scalars \in ScalarsChoices, invert \in BOOLEAN,
          continuous \in BOOLEAN, preference \in PreferenceChoices :
        /\ op' = "threshold_percent"
        /\ args' = [percent |-> percent, scalars |-> scalars, invert |-> invert,
                    continuous |-> continuous, preference |-> preference]
        /\ res' = threshold_percent(dataset, percent, scalars, invert, continuous,
                                    preference)
        /\ UNCHANGED dataset

Contour ==
    /\ op = "none"
    /\ \E isosurfaces \in IsosurfacesChoices, scalars \in ScalarsChoices,
          flags \in BOOLEAN, preference \in PreferenceChoices :
        /\ op' = "contour"
        /\ args' = [isosurfaces |-> isosurfaces, scalars |-> scalars,
                    compute_normals |-> flags, compute_gradients |-> flags,
                    compute_scalars |-> ~flags, preference |-> preference]
        /\ res' = contour(dataset, isosurfaces, scalars, flags, flags, ~flags,
                          preference)
        /\ UNCHANGED dataset

\* The call has returned or raised; the caller is ready for the next one.
Done ==
    /\ op # "none"
    /\ op' = "none"
    /\ args' = None
    /\ res' = Idle
    /\ UNCHANGED dataset

Next ==
    Clip \/ Slice \/ SliceAlongAxis \/ Threshold \/ ThresholdPercent \/ Contour \/ Done

Spec == Init /\ [][Next]_vars

----------------------------------------------------------------------------
(* The whole filter layer: every filter of DataSetFilters, called in any   *)
(* order on one dataset.                                                   *)

FiltersInit ==
    /\ dataset \in FilterDatasets
    /\ op = "none"
    /\ args = None
    /\ res = Idle

SliceOrthogonal ==
    /\ op = "none"
    /\ \E x \in CoordinateChoices, y \in CoordinateChoices, z \in CoordinateChoices,
          generate_triangles \in BOOLEAN :
        /\ op' = "slice_orthogonal"
        /\ args' = [x |-> x, y |-> y, z |-> z, generate_triangles |-> generate_triangles]
        /\ res' = slice_orthogonal(dataset, x, y, z, generate_triangles)
        /\ UNCHANGED dataset

Outline ==
    /\ op = "none"
    /\ \E generate_faces \in BOOLEAN :
        /\ op' = "outline"
        /\ args' = [generate_faces |-> generate_faces]
        /\ res' = outline(dataset, generate_faces)
        /\ UNCHANGED dataset

OutlineCorners ==
    /\ op = "none"
    /\ \E factor \in FactorChoices :
        /\ op' = "outline_corners"
        /\ args' = [factor |-> factor]
        /\ res' = outline_corners(dataset, factor)
        /\ UNCHANGED dataset

ExtractGeometry ==
    /\ op = "none"
    /\ op' = "extract_geometry"
    /\ args' = None
    /\ res' = extract_geometry(dataset)
    /\ UNCHANGED dataset

Wireframe ==
    /\ op = "none"
    /\ op' = "wireframe"
    /\ args' = None
    /\ res' = wireframe(dataset)
    /\ UNCHANGED dataset

ElevationCall ==
    /\ op = "none"
    /\ \E low_point \in LowPointChoices, high_point \in HighPointChoices,
          scalar_range \in ScalarRangeChoices, preference \in PreferenceChoices,
          set_active \in BOOLEAN :
        /\ op' = "elevation"
        /\ args' = [low_point |-> low_point, high_point |-> high_point,
                    scalar_range |-> scalar_range, preference |-> preference,
                    set_active |-> set_active]
        /\ res' = elevation(dataset, low_point, high_point, scalar_range, preference,
                            set_active)
        /\ UNCHANGED dataset

\* The one call that may write to its dataset.
TextureMapToPlane ==
    /\ op = "none"
    /\ \E plane \in PlaneChoices, inplace \in BOOLEAN, name \in NameChoices :
        LET call == texture_map_to_plane(dataset, plane[1], plane[2], plane[3],
                                         inplace, name)
        IN  /\ op' = "texture_map_to_plane"
            /\ args' = [origin |-> plane[1], point_u |-> plane[2], point_v |-> plane[3],
                        inplace |-> inplace, name |-> name]
            /\ res' = call.res
            /\ dataset' = call.dataset

FiltersNext ==
    \/ Next
    \/ SliceOrthogonal \/ Outline \/ OutlineCorners \/ ExtractGeometry \/ Wireframe
    \/ ElevationCall \/ TextureMapToPlane

Filters == FiltersInit /\ [][FiltersNext]_vars

----------------------------------------------------------------------------
(* Properties of clip, slice and slice_along_axis.                         *)

MidPoint(b) == [k \in 1..3 |-> Rat(b[2 * k - 1] + b[2 * k], 2)]

InsideBox(pt, b) ==
    \A k \in 1..3 : RLe(R(b[2 * k - 1]), pt[k]) /\ RLe(pt[k], R(b[2 * k]))

\* The origin the plane is to pass through: the argument, or the center.
OriginAsked == IF args.origin = None THEN MidPoint(dataset.bounds) ELSE args.origin.v

SixNames == { <<"x">>, <<"y">>, <<"z">>, <<"-", "x">>, <<"-", "y">>, <<"-", "z">> }

\* The documented table, with the spellings that differ only in case.
DocumentedNormal(s) ==
    CASE s \in { <<"x">>, <<"X">> } -> <<1, 0, 0>>
      [] s \in { <<"y">>, <<"Y">> } -> <<0, 1, 0>>
      [] s \in { <<"z">>, <<"Z">> } -> <<0, 0, 1>>
      [] s \in { <<"-", "x">>, <<"-", "X">> } -> <<-1, 0, 0>>
      [] s \in { <<"-", "y">>, <<"-", "Y">> } -> <<0, -1, 0>>
      [] s \in { <<"-", "z">>, <<"-", "Z">> } -> <<0, 0, -1>>
      [] OTHER -> <<>>

NameAccepted(normal) == normal.t = "str" => DocumentedNormal(normal.s) # <<>>

\* C1 as stated: slice raises 'Slice is outside data bounds.' exactly when the
\* origin it resolves (the argument, or the dataset center when omitted) is
\* not inside the dataset's bounding box.
C1_AsStated ==
    op = "slice" =>
        (res.err = SliceOutsideBounds <=> ~InsideBox(OriginAsked, dataset.bounds))

\* C1 amended: when the normal resolves (it is no unknown name), slice raises
\* 'Slice is outside data bounds.' exactly when the resolved origin is not
\* inside the bounding box, and then before any plane or cutter is built; an
\* omitted origin resolves to the dataset center, so a dataset whose center
\* lies within its bounds passes the check.  An unknown normal name fails
\* first, whatever the origin.
C1_BoundsCheck ==
    op = "slice" =>
        /\ res.err = SliceOutsideBounds <=>
               (NameAccepted(args.normal) /\ ~InsideBox(OriginAsked, dataset.bounds))
        /\ res.err = SliceOutsideBounds => res.events = <<>>
        /\ (args.origin = None /\ res.err = "") =>
               res.out.data.plane.origin = MidPoint(dataset.bounds)
        /\ (args.origin = None /\ InsideBox(MidPoint(dataset.bounds), dataset.bounds)) =>
               res.err # SliceOutsideBounds

\* A slice at an origin given outside the bounds has raised the bounds error.
C1_Witness ==
    /\ op = "slice"
    /\ args.origin # None
    /\ ~InsideBox(args.origin.v, dataset.bounds)
    /\ res.err = SliceOutsideBounds

\* C9 as stated: in clip and slice one of the six names resolves to its unit
\* vector, a 3-vector is used unchanged, and every other string fails with
\* the invalid-argument error before any algorithm is built or run.
C9_AsStated ==
    op \in {"clip", "slice"} =>
        /\ (args.normal.t = "str" /\ args.normal.s \in SixNames /\ res.err = "") =>
               res.out.data.plane.normal = DocumentedNormal(args.normal.s)
        /\ (args.normal.t = "vec" /\ res.err = "") =>
               res.out.data.plane.normal = args.normal.v
        /\ (args.normal.t = "str" /\ args.normal.s \notin SixNames) =>
               (res.err = KeyError /\ res.events = <<>>)

\* C9 amended: the name is matched without regard to case ('X' is 'x'): a
\* string that is one of the six names after lower-casing resolves to the
\* documented unit vector, a 3-vector is used unchanged, and every other
\* string fails with the invalid-argument error before any algorithm is
\* built or run.
C9_NormalTable ==
    op \in {"clip", "slice"} =>
        /\ (args.normal.t = "str" /\ NameAccepted(args.normal)) => res.err # KeyError
        /\ (args.normal.t = "str" /\ NameAccepted(args.normal) /\ res.err = "") =>
               res.out.data.plane.normal = DocumentedNormal(args.normal.s)
        /\ (args.normal.t = "vec" /\ res.err = "") =>
               res.out.data.plane.normal = args.normal.v
        /\ (args.normal.t = "str" /\ ~NameAccepted(args.normal)) =>
               (res.err = KeyError /\ res.events = <<>>)

\* A clip by the name '-y' has run with the normal (0,-1,0).
C9_Witness ==
    /\ op = "clip"
    /\ args.normal = Str(<<"-", "y">>)
    /\ res.err = ""
    /\ res.out.data.plane.normal = <<0, -1, 0>>

AxisNumber(s) == CASE s = <<"x">> -> 1 [] s = <<"y">> -> 2 [] s = <<"z">> -> 3

\* The case of C7: a symbolic axis of positive extent, valid bounds, and a
\* tolerance (given, or 1% of the extent) with 0 <= tol < extent / 2.
C7_Case ==
    /\ op = "slice_along_axis"
    /\ args.axis.t = "str"
    /\ args.axis.s \in { <<"x">>, <<"y">>, <<"z">> }
    /\ \A j \in 1..3 : dataset.bounds[2 * j - 1] <= dataset.bounds[2 * j]
    /\ LET k == AxisNumber(args.axis.s)
           ext == dataset.bounds[2 * k] - dataset.bounds[2 * k - 1]
       IN  /\ ext > 0
           /\ args.tolerance # None =>
                  /\ RLe(R(0), args.tolerance.r)
                  /\ RLt(RMul(R(2), args.tolerance.r), R(ext))

C7_Tol ==
    LET k == AxisNumber(args.axis.s)
    IN  IF args.tolerance = None
        THEN Rat(dataset.bounds[2 * k] - dataset.bounds[2 * k - 1], 100)
        ELSE args.tolerance.r

C7_Offset(i) == res.out.blocks[i].data.data.plane.origin[AxisNumber(args.axis.s)]

\* Entries 0..n-1 labelled slice00, slice01, ..., centred off the axis.
C7_Entries ==
    /\ res.err = ""
    /\ Len(res.out.blocks) = args.n
    /\ \A i \in 1..args.n :
        /\ res.out.blocks[i].index = i - 1
        /\ res.out.blocks[i].label =
               <<"s", "l", "i", "c", "e", "0">>
                   \o << <<"0", "1", "2", "3", "4", "5", "6", "7", "8", "9">>[i] >>
        /\ \A j \in 1..3 \ {AxisNumber(args.axis.s)} :
               res.out.blocks[i].data.data.plane.origin[j] = MidPoint(dataset.bounds)[j]
    /\ \A i \in 1..(args.n - 1) : RLt(C7_Offset(i), C7_Offset(i + 1))
    /\ \A i \in 1..(args.n - 2) :
           RSub(C7_Offset(i + 1), C7_Offset(i)) = RSub(C7_Offset(i + 2), C7_Offset(i + 1))

\* C7 as stated (for a symbolic axis and the tolerances above): n entries
\* slice00.. in order, evenly spaced and strictly increasing offsets, all
\* strictly inside (bound_min + tol, bound_max - tol).
C7_AsStated ==
    C7_Case =>
        /\ C7_Entries
        /\ LET k == AxisNumber(args.axis.s)
           IN  \A i \in 1..args.n :
                   /\ RLt(RAdd(R(dataset.bounds[2 * k - 1]), C7_Tol), C7_Offset(i))
                   /\ RLt(C7_Offset(i), RSub(R(dataset.bounds[2 * k]), C7_Tol))

\* C7 amended: for a symbolic axis name of positive extent and a tolerance
\* with 0 <= tol < extent / 2 (the default, 1% of the extent, is one), the
\* result has exactly n entries at indices 0..n-1 labelled slice00, slice01,
\* ... in order; entry i is the slice whose origin is the dataset center
\* except on the axis, where the offsets are evenly spaced, strictly
\* increasing and lie in the closed interval [bound_min + tol, bound_max -
\* tol]: the first offset is bound_min + tol and, for n >= 2, the last is
\* bound_max - tol.
C7_Slices ==
    C7_Case =>
        /\ C7_Entries
        /\ LET k == AxisNumber(args.axis.s)
               first == RAdd(R(dataset.bounds[2 * k - 1]), C7_Tol)
               last == RSub(R(dataset.bounds[2 * k]), C7_Tol)
           IN  /\ \A i \in 1..args.n :
                       RLe(first, C7_Offset(i)) /\ RLe(C7_Offset(i), last)
               /\ args.n >= 1 => C7_Offset(1) = first
               /\ args.n >= 2 => C7_Offset(args.n) = last

\* Three slices along x with the default tolerance have been made.
C7_Witness ==
    /\ C7_Case
    /\ args.axis = Str(<<"x">>)
    /\ args.tolerance = None
    /\ args.n >= 3
    /\ res.err = ""
    /\ Len(res.out.blocks) = args.n

AxisName(k) == CASE k = 0 -> <<"x">> [] k = 1 -> <<"y">> [] k = 2 -> <<"z">>

\* C8 as stated: the axis index 0, 1 or 2 gives the same slices as the name
\* x, y or z, and any other axis value fails with 'Axis (...) not
\* understood' before any slice is produced.
C8_AsStated ==
    op = "slice_along_axis" =>
        /\ (args.axis.t = "int" /\ args.axis.i \in 0..2) =>
               LET named == slice_along_axis(dataset, args.n, Str(AxisName(args.axis.i)),
                                             args.tolerance, args.generate_triangles)
               IN  res.err = named.err /\ res.out = named.out
        /\ ~((args.axis.t = "int" /\ args.axis.i \in 0..2)
             \/ (args.axis.t = "str" /\ args.axis.s \in { <<"x">>, <<"y">>, <<"z">> })) =>
               (res.err = AxisNotUnderstood /\ res.events = <<"MultiBlock">>)

----------------------------------------------------------------------------
(* Properties of threshold, threshold_percent and contour.                 *)

InSeq(x, sq) == \E i \in 1..Len(sq) : sq[i] = x

\* The deepest nesting of threshold calls in a sequence of events.
RECURSIVE Nesting(_, _, _, _)
Nesting(ev, i, cur, best) ==
    IF i > Len(ev) THEN best
    ELSE IF ev[i] = "threshold("
    THEN Nesting(ev, i + 1, cur + 1, IF cur + 1 > best THEN cur + 1 ELSE best)
    ELSE IF ev[i] = ")" THEN Nesting(ev, i + 1, cur - 1, best)
    ELSE Nesting(ev, i + 1, cur, best)

Count(x, sq) == Cardinality({i \in 1..Len(sq) : sq[i] = x})

\* The array a call names: scalars, or the active scalar when omitted.
TargetName == IF args.scalars = None THEN dataset.active[2] ELSE args.scalars

InPointData == TargetName # None /\ TargetName.s \in DOMAIN dataset.point_arrays

InCellData == TargetName # None /\ TargetName.s \in DOMAIN dataset.cell_arrays

\* The array threshold works on: the one its locality preference picks.
TargetOnCells == InCellData /\ (InPointData => args.preference = "cell")

TargetArray ==
    IF TargetOnCells THEN dataset.cell_arrays[TargetName.s]
    ELSE dataset.point_arrays[TargetName.s]

Finite(arr) == {i \in 1..Len(arr) : ~arr[i].nan}

\* The cells, in order, whose value v has lo <= v <= hi.
RECURSIVE CellsWithin(_, _, _, _)
CellsWithin(arr, lo, hi, c) ==
    IF c > Len(arr) THEN <<>>
    ELSE (IF FLe(lo, arr[c]) /\ FLe(arr[c], hi) THEN <<c>> ELSE <<>>)
         \o CellsWithin(arr, lo, hi, c + 1)

\* The case of C2: a 2-element range, invert=True, on cell data holding at
\* least one number.
C2_Case ==
    /\ op = "threshold"
    /\ args.value.t = "seq"
    /\ Len(args.value.v) = 2
    /\ args.invert
    /\ InPointData \/ InCellData

C3_AsStated ==
    op = "threshold" =>
        /\ (args.value.t = "seq" /\ Len(args.value.v) # 2) => res.err # ""
        /\ ~(InPointData \/ InCellData) => res.err = NoArraysToThreshold

OutOfRange == {PercentOutOfRange, PercentTooSmall}

\* p / 100. when p >= 1, p otherwise
Normalised(p) == IF FLe(One, p) THEN FDivInt(p, 100) ELSE p

\* The percentages of a call that are looked at: one, or the first two.
Percents ==
    IF args.percent.t = "seq"
    THEN {args.percent.v[i] : i \in 1..(IF Len(args.percent.v) < 2
                                        THEN Len(args.percent.v) ELSE 2)}
    ELSE {args.percent.d}

\* The value threshold_percent passes on for the normalised percentage q:
\* dmin + q * (dmax - dmin) over the data range of the target array.
ValueAt(q) ==
    LET rng == get_data_range(dataset, TargetName, args.preference)
    IN  FAdd(rng[1], FMul(q, FSub(rng[2], rng[1])))

\* 1e-10 < q <= 1
InHalfOpen(q) == FLt(Float_1e_10, q) /\ FLe(q, One)

\* 1e-10 <= q <= 1
InClosed(q) == FLe(Float_1e_10, q) /\ FLe(q, One)

\* C4 as stated: the normalised percentage is p / 100 when p >= 1 and p
\* otherwise; the call succeeds only if it lies in (1e-10, 1], and outside
\* that interval the call fails with the out-of-range error without invoking
\* threshold.
C4_AsStated ==
    op = "threshold_percent" =>
        LET outside == \E p \in Percents : ~InHalfOpen(Normalised(p))
        IN  /\ res.err = "" => ~outside
            /\ outside => (res.err \in OutOfRange /\ res.events = <<>>)

\* C4 amended: the interval is closed at 1e-10.  The normalised percentage
\* is p / 100 when p >= 1 and p otherwise; the call succeeds only if it lies
\* in [1e-10, 1], outside that interval the call fails with the out-of-range
\* error without invoking threshold, and a single percentage that passes is
\* handed to threshold as dmin + normalised * (dmax - dmin).
C4_Normalised ==
    op = "threshold_percent" =>
        LET outside == \E p \in Percents : ~InClosed(Normalised(p))
        IN  /\ res.err = "" => ~outside
            /\ outside => (res.err \in OutOfRange /\ res.events = <<>>)
            /\ ~outside => res.err \notin OutOfRange
            /\ (res.err = "" /\ args.percent.t = "pct") =>
                   res.out.data.lo = ValueAt(Normalised(args.percent.d))

\* A call with the percentage 1e-10 has succeeded.
C4_Witness ==
    /\ op = "threshold_percent"
    /\ args.percent = PyPct(Float_1e_10)
    /\ res.err = ""

\* C5 as stated: threshold_percent fails with the out-of-range error for
\* percent = 0, 1e-11 and 1.5.
C5_AsStated ==
    (op = "threshold_percent" /\ args.percent.t = "pct"
         /\ args.percent.d \in {Zero, Pct_1e_11, Pct_1_5})
        => res.err \in OutOfRange

\* C5 amended: threshold_percent fails with the out-of-range error for
\* percent = 0 and 1e-11 and for every percent above 100 (150 is 150%);
\* percent = 1.5 is read as 1.5%, not 150%, and is not out of range.
C5_Rejected ==
    (op = "threshold_percent" /\ args.percent.t = "pct") =>
        /\ args.percent.d \in {Zero, Pct_1e_11} => res.err = PercentTooSmall
        /\ FLt(Num(100), args.percent.d) =>
               (res.err = PercentOutOfRange /\ res.events = <<>>)
        /\ args.percent.d = Pct_1_5 =>
               /\ res.err \notin OutOfRange
               /\ res.err = "" => res.out.data.lo = ValueAt(FDivInt(Pct_1_5, 100))

\* The percentage 150 has been rejected as out of range.
C5_Witness ==
    /\ op = "threshold_percent"
    /\ args.percent = PyPct(Num(150))
    /\ res.err = PercentOutOfRange

\* 0.01 <= f < 1
IsFraction(f) == FLe(Pct_0_01, f) /\ FLt(f, One)

\* 100 * f
Times100(f) == FMul(Num(100), f)

\* (100 * f) / 100. == f
RoundTrips(f) == FDivInt(Times100(f), 100) = f

\* The outcome of the call in args with another percent argument.
WithPercent(percent) ==
    threshold_percent(dataset, percent, args.scalars, args.invert, args.continuous,
                      args.preference)

\* C6 as stated: for the same dataset, array and flags, threshold_percent(f)
\* and threshold_percent(100 * f) hand threshold the same value dmin + f *
\* (dmax - dmin) and give identical output, for every f with 0.01 <= f < 1,
\* and element-wise for a pair.
C6_AsStated ==
    op = "threshold_percent" =>
        /\ (args.percent.t = "pct" /\ IsFraction(args.percent.d)) =>
               res = WithPercent(PyPct(Times100(args.percent.d)))
        /\ (args.percent.t = "seq" /\ Len(args.percent.v) = 2
                /\ \A i \in 1..2 : IsFraction(args.percent.v[i])) =>
               res = WithPercent(PySeq([i \in 1..2 |-> Times100(args.percent.v[i])]))

\* C6 amended: threshold_percent(f) and threshold_percent(100 * f) hand
\* threshold the same value dmin + f * (dmax - dmin) and give identical
\* output for every f with 0.01 <= f < 1 whose hundredfold divides back to
\* it, (100 * f) / 100. == f, as 0.5 and 50 do, and element-wise for a pair;
\* and every percentage p >= 1 with p / 100. < 1 gives the outcome of the
\* fraction p / 100.
C6_SameAsTimes100 ==
    op = "threshold_percent" =>
        /\ (args.percent.t = "pct" /\ IsFraction(args.percent.d)
                /\ RoundTrips(args.percent.d)) =>
               /\ res = WithPercent(PyPct(Times100(args.percent.d)))
               /\ res.err = "" => res.out.data.lo = ValueAt(args.percent.d)
        /\ (args.percent.t = "seq" /\ Len(args.percent.v) = 2
                /\ \A i \in 1..2 : IsFraction(args.percent.v[i])
                                       /\ RoundTrips(args.percent.v[i])) =>
               res = WithPercent(PySeq([i \in 1..2 |-> Times100(args.percent.v[i])]))
        /\ (args.percent.t = "pct" /\ FLe(One, args.percent.d)
                /\ FLt(FDivInt(args.percent.d, 100), One)) =>
               res = WithPercent(PyPct(FDivInt(args.percent.d, 100)))
        /\ args.percent = PyPct(Pct_0_5) =>
               (RoundTrips(Pct_0_5) /\ Times100(Pct_0_5) = Num(50))

\* The fraction 0.01 (whose hundredfold is 1) has thresholded some cell.
C6_Witness ==
    /\ op = "threshold_percent"
    /\ args.percent = PyPct(Pct_0_01)
    /\ IsFraction(Pct_0_01)
    /\ RoundTrips(Pct_0_01)
    /\ res.err = ""
    /\ Len(res.out.data.cells) >= 1

MissingData == {NoScalarData, ContourCellData}

\* C10: contour fails with a missing-data error whenever the dataset has no
\* scalar array and whenever the target array (scalars resolved with the
\* locality preference, or the active scalar) is cell data, both before the
\* contour algorithm is run; a target in the point data never raises it.
C10_MissingData ==
    op = "contour" =>
        LET none == n_scalars(dataset) = 0
            oncells == IF args.scalars = None
                       THEN dataset.active[1] = CELL_DATA_FIELD
                       ELSE TargetOnCells
            onpoints == IF args.scalars = None
                        THEN dataset.active[1] = POINT_DATA_FIELD
                        ELSE InPointData /\ ~TargetOnCells
        IN  /\ none => (res.err = NoScalarData /\ ~InSeq("Update", res.events))
            /\ (~none /\ oncells) =>
                   (res.err = ContourCellData /\ ~InSeq("Update", res.events))
            /\ (~none /\ onpoints) => res.err \notin MissingData

\* A contour on an array found in both fields, cell data preferred, has failed.
C10_Witness ==
    /\ op = "contour"
    /\ args.scalars = Str(A)
    /\ args.preference = "cell"
    /\ InPointData
    /\ InCellData
    /\ res.err = ContourCellData

----------------------------------------------------------------------------
(* Properties of the whole filter layer: what a call writes to its dataset *)
(* and what its output carries.                                            *)

\* The texture coordinates the call in args computes.
NewCoords(a) == [origin |-> a.origin.v, point_u |-> a.point_u.v, point_v |-> a.point_v.v]

SameGeometry(d, e) ==
    d.bounds = e.bounds /\ d.n_cells = e.n_cells /\ d.n_points = e.n_points

\* C11, as stated: texture_map_to_plane with inplace=True returns nothing
\* and, for every dataset and every name, leaves geometry and cell count
\* unchanged, makes the newly computed coordinates, under the given name, the
\* designated texture coordinates and keeps the array designated before among
\* the point arrays; with inplace=False it returns a new dataset and leaves
\* the input's texture coordinates and arrays unchanged.  The statement is
\* taken on the datasets of three points or more, those the kernel computes
\* coordinates for; with fewer points the in-place call raises
\* AttributeError and writes nothing.
C11_AsStated ==
    [][(op = "none" /\ op' = "texture_map_to_plane" /\ dataset.n_points >= 3) =>
          IF args'.inplace
          THEN /\ res'.err = ""
               /\ res'.out = NoOutput
               /\ SameGeometry(dataset, dataset')
               /\ dataset'.tcoords = Str(args'.name)
               /\ args'.name \in DOMAIN dataset'.t_arrays
               /\ dataset'.t_arrays[args'.name] = NewCoords(args')
               /\ dataset.tcoords # None =>
                      /\ dataset.tcoords.s \in DOMAIN dataset'.t_arrays
                      /\ dataset'.t_arrays[dataset.tcoords.s]
                             = dataset.t_arrays[dataset.tcoords.s]
          ELSE /\ res'.err = ""
               /\ res'.out # NoOutput
               /\ dataset' = dataset]_vars

Copying ==
    { "clip", "slice", "threshold", "contour", "extract_geometry", "wireframe",
      "elevation", "texture_map_to_plane" }

Outlining == { "outline", "outline_corners" }

ElevationActive == op = "elevation" /\ args.set_active

\* The active scalar the output of the call is to carry.
CarriedActive ==
    IF ElevationActive THEN <<POINT_DATA_FIELD, Str(Elevation)>> ELSE dataset.active

\* C13, as stated: the output of clip, slice, threshold, contour, outline,
\* outline_corners, extract_geometry, wireframe, elevation and
\* texture_map_to_plane carries the active scalar designation of the input;
\* with set_active=True that of elevation is the point array Elevation.
C13_AsStated ==
    (op \in Copying \cup Outlining /\ res.err = "" /\ res.out # NoOutput) =>
        res.out.active = CarriedActive

\* C13, amended: the output of clip, slice, threshold (the inverted range
\* included), contour, extract_geometry, wireframe, elevation and
\* texture_map_to_plane carries the active scalar designation of the input,
\* and with set_active=True that of elevation is the point array Elevation;
\* the output of outline and outline_corners carries the designation of a new
\* dataset, (point, None), whatever the input's.
C13_CopiedForward ==
    /\ (op \in Copying /\ res.err = "" /\ res.out # NoOutput) =>
           res.out.active = CarriedActive
    /\ (op \in Outlining /\ res.err = "") => res.out.active = NoActive

\* A threshold by an inverted range on a cell array has returned its output.
C13_Witness ==
    /\ op = "threshold"
    /\ args.invert
    /\ IsIterable(args.value)
    /\ res.err = ""
    /\ dataset.active = <<CELL_DATA_FIELD, Str(A)>>
    /\ res.out.active = <<CELL_DATA_FIELD, Str(A)>>

====
